---- MODULE Spec2Model ----
(***************************************************************************)
(* Finlit Networking registration bot: the conversation engine of          *)
(* finlit_registration_bot.py (MySQL variant, PHONE as the last step) and   *)
(* of "Finlit Telegram bot.py" (SQLite variant, CONFIRM as the last step). *)
(*                                                                         *)
(* One user identity is modelled.  context.user_data is the Answer Store   *)
(* of that identity; python-telegram-bot keys a conversation by            *)
(* (chat, user) (ConversationHandler defaults per_chat = per_user = True)  *)
(* and keys user_data by the user alone.  Updates are processed one at a   *)
(* time (Application without concurrent_updates), so a handler is one      *)
(* atomic action.  A handler that raises leaves the conversation state     *)
(* as it was; a handler that returns None leaves it as it was too.         *)
(*                                                                         *)
(* The events are text messages, shared contacts, button presses and       *)
(* commands.  The bot keeps conversations and user_data in memory only,    *)
(* while the chat keeps the messages of earlier runs: the model starts     *)
(* with the process just started and the keyboards of an earlier pass      *)
(* through the flow still in the private chat, so every button the         *)
(* variant ever sends can be pressed in every state.  Sends to the user's  *)
(* own chat are taken to succeed; the record save, the Excel export and    *)
(* the operator notifications each succeed or raise.                       *)
(***************************************************************************)
EXTENDS Integers, Sequences, FiniteSets, TLC

VARIABLES
    variant,      \* which source file runs: "mysql" or "sqlite"
    conv,         \* ConversationHandler._conversations: chat -> state
    user_data,    \* context.user_data: key -> value, DOMAIN = keys present
    effects,      \* what the handling of the last update did, in order;
                  \* <<>> when no handler took it
    trail,        \* chat -> states entered since the session was at NAME;
                  \* <<>> when the chat had no session or cancelled it
    submitted,    \* chat -> key -> the answer the user gave in this session
                  \* that the handler of the step took as valid, as sent
    saved,        \* chat -> the records persisted since the session's /start
    summary,      \* chat -> <<r>>: the record shown for confirmation, or <<>>
    ORGANIZER_IDS \* the module's list of operators, parsed at import from
                  \* the environment and never assigned again

vars == <<variant, conv, user_data, effects, trail,
          submitted, saved, summary, ORGANIZER_IDS>>

----------------------------------------------------------------------------
(* Program constants *)

NETWORKING_OPTIONS ==
    <<"Yangi tanishlar", "Hamkorlik imkoniyatlari",
      "Tajriba almashish", "Ilhom va goyalar">>

LANGUAGE_OPTIONS == <<"Ozbekcha", "Ruscha", "Inglizcha">>

FORMAT_OPTIONS == <<"Oflayn uchrashuv", "Onlayn format", "Gibrid">>

\* The parts of the ORGANIZER_IDS variable of the environment that int()
\* takes, and one it raises ValueError on.
AdminIds == {"111111111", "222222222"}

NotAnId == "x"

\* raw.split(",") of the value the docstring gives:
\* ORGANIZER_IDS=111111111,222222222
DocEnv == <<"111111111", "222222222">>

\* parse_admins on the comma-separated parts of raw, in their order: a part
\* int() takes is appended, as often as it is listed; another is passed over.
parse_admins(parts) == SelectSeq(parts, LAMBDA part : part \in AdminIds)

\* The absent conversation key (ConversationHandler.END removes the key).
END == "END"

\* states = {...} of build_app, per variant, in the order of the tuple.
States(v) ==
    IF v = "mysql"
    THEN <<"NAME", "WORKPLACE", "CAREER", "INTERESTS", "NETWORKING", "REGION",
           "LANGUAGES", "LANGUAGES_TEXT", "MEET_FORMAT", "PHONE">>
    ELSE <<"NAME", "WORKPLACE", "CAREER", "INTERESTS", "NETWORKING", "REGION",
           "LANGUAGES", "LANGUAGES_TEXT", "TOPICS", "MEET_FORMAT",
           "SELF_DESC", "CONFIRM">>

----------------------------------------------------------------------------
(* Bounds and input alphabets *)

\* The chats in which the user talks to the bot: the private chat, and a
\* group the bot is a member of.  With the privacy mode of a bot left on,
\* Telegram delivers from a group only the commands addressed to the bot.
Chats == {"private", "group"}
FullChats == {"private"}

SP == " "

\* Raw text messages (non-empty, not a command): sequences of characters.
TextInputs == { <<SP>>, <<SP, "a", SP>> }

\* Raw phone inputs, as text or as the phone_number of a shared contact.
PhoneInputs ==
    { <<"a", "b">>,
      <<"1", "2", "3">>,
      <<"1", "2", SP, "3", "4", "-", "5", "6", "7">>,
      <<"1", "2", "3", "4", "5", "6", "7", "8", "9">> }

Digits == {"0", "1", "2", "3", "4", "5", "6", "7", "8", "9"}

\* The character U+00B2 (superscript two): not a decimal digit, and one for
\* which str.isdigit() is true.
SUP2 == "sup2"

\* The characters of a phone input.
PhoneChars == Digits \cup {SUP2, "+", "-", SP, "a", "b"}

\* The longest run of digits of a phone input of the last steps.
MaxDigits == 10

\* n times the digit "1".
Ones(n) == [i \in 1..n |-> "1"]

\* Raw phone inputs of the last steps: a run of 0..MaxDigits digits, with
\* nothing, a "+", a space or a letter before it and nothing, a dash and a
\* digit, a "+" or a superscript after it.
WidePhoneInputs ==
    { pre \o Ones(n) \o post :
        pre \in {<<>>, <<"+">>, <<SP>>, <<"a">>},
        n \in 0..MaxDigits,
        post \in {<<>>, <<"-", "2">>, <<"+">>, <<SUP2>>} }

\* The options whose buttons the user presses.
PressedNetworking == {"Yangi tanishlar"}
PressedLanguages == {"Ozbekcha"}
PressedFormats == {"Oflayn uchrashuv"}

\* Text answers of one session that are blank (whitespace only): at most
\* MaxBlank.
MaxBlank == 1

\* on_phone / on_confirm_cb are not taken once a session persisted this many.
MaxSaved == 2

\* The most comma-separated parts of the ORGANIZER_IDS variable of the
\* environment.
MaxAdmins == 2

\* raw.split(",") of the values of ORGANIZER_IDS in the environment: unset or
\* empty (no part), and up to MaxAdmins parts, each an id or not a number.
EnvInputs ==
    UNION { [1..n -> AdminIds \cup {NotAnId}] : n \in 0..MaxAdmins }

Range(s) == { s[i] : i \in 1..Len(s) }

----------------------------------------------------------------------------
(* Pure helpers *)

\* dict.get(k, d)
Get(ud, k, d) == IF k \in DOMAIN ud THEN ud[k] ELSE d

\* dict[k] = v
Put(ud, k, v) ==
    [x \in (DOMAIN ud) \cup {k} |-> IF x = k THEN v ELSE ud[x]]

\* dict.clear()
Empty == [x \in {} |-> 0]

RECURSIVE lstrip(_)
lstrip(s) ==
    IF s = <<>> THEN <<>>
    ELSE IF Head(s) = SP THEN lstrip(Tail(s)) ELSE s

RECURSIVE rstrip(_)
rstrip(s) ==
    IF s = <<>> THEN <<>>
    ELSE IF s[Len(s)] = SP THEN rstrip(SubSeq(s, 1, Len(s) - 1)) ELSE s

\* str.strip()
strip(s) == rstrip(lstrip(s))

\* str.isdigit() of one character: the decimal digits and the other
\* characters of Numeric_Type Digit.
isdigit(ch) == ch \in Digits \cup {SUP2}

\* "".join(ch for ch in raw if (ch.isdigit() or ch == "+"))
RECURSIVE KeepPhoneChars(_)
KeepPhoneChars(raw) ==
    IF raw = <<>> THEN <<>>
    ELSE IF isdigit(Head(raw)) \/ Head(raw) = "+"
         THEN <<Head(raw)>> \o KeepPhoneChars(Tail(raw))
         ELSE KeepPhoneChars(Tail(raw))

\* sanitize_phone without the test of the length before the "+".
sanitize_phone_always_plus(raw) ==
    LET cleaned == KeepPhoneChars(raw)
    IN  IF cleaned # <<>> /\ cleaned[1] # "+"
        THEN <<"+">> \o cleaned
        ELSE cleaned

sanitize_phone(raw) ==
    LET cleaned == KeepPhoneChars(raw)
    IN  IF cleaned # <<>> /\ cleaned[1] # "+" /\ Len(cleaned) >= 9
        THEN <<"+">> \o cleaned
        ELSE cleaned

\* Python orders strings by code point; the rank of each option among all
\* option captions ("Hamkorlik" < "Ilhom" < "Inglizcha" < "Ozbekcha" <
\* "Ruscha" < "Tajriba" < "Yangi").
SortKey(o) ==
    CASE o = "Hamkorlik imkoniyatlari" -> 1
      [] o = "Ilhom va goyalar" -> 2
      [] o = "Inglizcha" -> 3
      [] o = "Ozbekcha" -> 4
      [] o = "Ruscha" -> 5
      [] o = "Tajriba almashish" -> 6
      [] o = "Yangi tanishlar" -> 7

\* sorted(set, reverse=True)
RECURSIVE sorted_reversed(_)
sorted_reversed(S) ==
    IF S = {} THEN <<>>
    ELSE LET m == CHOOSE x \in S : \A y \in S : SortKey(x) >= SortKey(y)
         IN  <<m>> \o sorted_reversed(S \ {m})

\* sorted(set)
RECURSIVE sorted(_)
sorted(S) ==
    IF S = {} THEN <<>>
    ELSE LET m == CHOOSE x \in S : \A y \in S : SortKey(x) <= SortKey(y)
         IN  <<m>> \o sorted(S \ {m})

\* ", ".join(list): the texts of the list with the separator between them.
RECURSIVE join(_)
join(l) ==
    IF l = <<>> THEN <<>>
    ELSE IF Len(l) = 1 THEN Head(l)
    ELSE Head(l) \o <<", ">> \o join(Tail(l))

\* A caption as text: texts are sequences of characters, a caption counts
\* as one.
Str(o) == <<o>>

RECURSIVE Texts(_)
Texts(l) == IF l = <<>> THEN <<>> ELSE <<Str(Head(l))>> \o Texts(Tail(l))

\* Registration.from_context: the record built from user_data.  The
\* telegram_username and created_at fields do not depend on the
\* conversation and are left out.
from_context(ud) ==
    [ telegram_id |-> "user",
      full_name |-> Get(ud, "full_name", <<>>),
      workplace |-> Get(ud, "workplace", <<>>),
      career_field |-> Get(ud, "career_field", <<>>),
      interests |-> Get(ud, "interests", <<>>),
      networking_goals |->
          join(Texts(sorted(Get(ud, "networking_selected", {})))),
      region |-> Get(ud, "region", <<>>),
      languages |->
          join(Texts(sorted(Get(ud, "languages_selected", {})))
               \o (IF Get(ud, "languages_text", <<>>) # <<>>
                   THEN <<Get(ud, "languages_text", <<>>)>>
                   ELSE <<>>)),
      topics |-> Get(ud, "topics", <<>>),
      meet_format |-> Get(ud, "meet_format", <<>>),
      self_desc |-> Get(ud, "self_desc", <<>>) ]

\* callback_data of the buttons: f"opt::{opt}", "alt::text", "done::ok",
\* f"pick::{opt}", "confirm::yes", "confirm::restart".
Data(prefix, rest) == <<prefix, "::", rest>>

\* data.startswith(prefix + "::")
StartsWith(data, prefix) == data[1] = prefix /\ data[2] = "::"

\* data.split("::", 1)[1]
SplitRest(data) == data[3]

\* make_multiselect_kb with the rows of the selected options first.
make_multiselect_kb_selected_first(options, selected, with_done, with_text_alt) ==
    LET order == SelectSeq(options, LAMBDA o : o \in selected)
                 \o SelectSeq(options, LAMBDA o : o \notin selected)
        rows == [i \in 1..Len(order) |->
                   << [text |-> <<IF order[i] \in selected
                                  THEN "checked" ELSE "blank", order[i]>>,
                       callback_data |-> Data("opt", order[i])] >>]
        extra == (IF with_text_alt
                  THEN << [text |-> <<"Boshqa">>,
                           callback_data |-> Data("alt", "text")] >>
                  ELSE <<>>)
                 \o (IF with_done
                     THEN << [text |-> <<"Tayyor">>,
                              callback_data |-> Data("done", "ok")] >>
                     ELSE <<>>)
    IN  IF extra # <<>> THEN rows \o <<extra>> ELSE rows

\* make_multiselect_kb: one row per option in the order of the list, then
\* the row of the extra buttons.
make_multiselect_kb(options, selected, with_done, with_text_alt) ==
    LET rows == [i \in 1..Len(options) |->
                   << [text |-> <<IF options[i] \in selected
                                  THEN "checked" ELSE "blank", options[i]>>,
                       callback_data |-> Data("opt", options[i])] >>]
        extra == (IF with_text_alt
                  THEN << [text |-> <<"Boshqa">>,
                           callback_data |-> Data("alt", "text")] >>
                  ELSE <<>>)
                 \o (IF with_done
                     THEN << [text |-> <<"Tayyor">>,
                              callback_data |-> Data("done", "ok")] >>
                     ELSE <<>>)
    IN  IF extra # <<>> THEN rows \o <<extra>> ELSE rows

make_singleselect_kb(options) ==
    [i \in 1..Len(options) |->
        << [text |-> <<options[i]>>,
            callback_data |-> Data("pick", options[i])] >>]

\* The two buttons of the confirmation message (SQLite variant).
confirm_kb ==
    << << [text |-> <<"Tasdiqlash">>, callback_data |-> Data("confirm", "yes")] >>,
       << [text |-> <<"Qayta boshlash">>,
           callback_data |-> Data("confirm", "restart")] >> >>

\* The callback_data of every button of a keyboard.
Buttons(kb) ==
    UNION { { kb[i][j].callback_data : j \in 1..Len(kb[i]) } : i \in 1..Len(kb) }

\* The buttons the user presses, among those of the keyboards.
PressedData ==
    { Data("opt", o) : o \in PressedNetworking \cup PressedLanguages }
    \cup { Data("pick", o) : o \in PressedFormats }
    \cup { Data("alt", "text"), Data("done", "ok"),
           Data("confirm", "yes"), Data("confirm", "restart") }

\* The buttons of the keyboards variant v sends.
AllButtons(v) ==
    Buttons(make_multiselect_kb(NETWORKING_OPTIONS, {}, TRUE, FALSE))
    \cup Buttons(make_multiselect_kb(LANGUAGE_OPTIONS, {}, TRUE, TRUE))
    \cup Buttons(make_singleselect_kb(FORMAT_OPTIONS))
    \cup (IF v = "sqlite" THEN Buttons(confirm_kb) ELSE {})

Pressable == AllButtons(variant) \cap PressedData

----------------------------------------------------------------------------
(* Dispatch: ConversationHandler.check_update over build_app's tables *)

\* States whose handler is MessageHandler(filters.TEXT & ~filters.COMMAND).
TextStates(v) ==
    IF v = "mysql"
    THEN {"NAME", "WORKPLACE", "CAREER", "INTERESTS", "REGION",
          "LANGUAGES_TEXT", "PHONE"}
    ELSE {"NAME", "WORKPLACE", "CAREER", "INTERESTS", "REGION",
          "LANGUAGES_TEXT", "TOPICS", "SELF_DESC"}

\* States whose handler is a CallbackQueryHandler.
CallbackStates(v) ==
    IF v = "mysql"
    THEN {"NETWORKING", "LANGUAGES", "MEET_FORMAT"}
    ELSE {"NETWORKING", "LANGUAGES", "MEET_FORMAT", "CONFIRM"}

\* States whose handler takes filters.CONTACT.
ContactStates(v) == IF v = "mysql" THEN {"PHONE"} ELSE {}

\* A handler of state st takes an update of this kind.  Every message
\* filter of the table excludes commands.
Takes(v, st, kind) ==
    \/ kind = "text" /\ st \in TextStates(v)
    \/ kind = "contact" /\ st \in ContactStates(v)
    \/ kind = "callback" /\ st \in CallbackStates(v)

\* ConversationHandler(..., allow_reentry=True)
allow_reentry == TRUE

\* The blank text answers the session of chat c has given.
Blanks(c) == { k \in DOMAIN submitted[c] : strip(submitted[c][k]) = <<>> }

\* The text handler of state st registered for every state of the table.
TextTo_any_state(c, st, raw) ==
    /\ conv[c] # END
    /\ c \in FullChats
    /\ raw \in TextInputs
    /\ strip(raw) = <<>> => Cardinality(Blanks(c)) < MaxBlank

\* A text message of chat c reaches the handler of state st.
TextTo(c, st, raw) ==
    /\ conv[c] = st
    /\ Takes(variant, st, "text")
    /\ c \in FullChats
    /\ raw \in TextInputs
    /\ strip(raw) = <<>> => Cardinality(Blanks(c)) < MaxBlank

\* A button press of chat c reaches the handler of state st; the token is
\* one of a keyboard the variant sends.
CallbackTo(c, st, data) ==
    /\ conv[c] = st
    /\ Takes(variant, st, "callback")
    /\ c \in FullChats
    /\ data \in AllButtons(variant)

Answer == <<"answer", "">>
Reply(what) == <<"reply", what>>
Raised(what) == <<"error", what>>

\* The handler returned state next, with the Answer Store ud.
Return(c, next, ud, eff, subm) ==
    /\ conv' = [conv EXCEPT ![c] = next]
    /\ user_data' = ud
    /\ effects' = eff
    /\ trail' = [trail EXCEPT ![c] = IF next = conv[c] THEN @ ELSE Append(@, next)]
    /\ submitted' = [submitted EXCEPT ![c] = subm]

\* The handler returned None or raised: the conversation stays where it is.
Stay(c, ud, eff) ==
    /\ user_data' = ud
    /\ effects' = eff
    /\ UNCHANGED <<conv, trail, submitted>>

----------------------------------------------------------------------------
(* Handlers: core flow *)

\* The entry point is tried first when no conversation is live or
\* allow_reentry is set.
StartTaken(c) == conv[c] = END \/ allow_reentry

\* start without context.user_data.clear().
start_keeps_store(c) ==
    /\ StartTaken(c)
    /\ conv' = [conv EXCEPT ![c] = "NAME"]
    /\ effects' = (IF conv[c] = END THEN <<>> ELSE << <<"reentry", conv[c]>> >>)
                  \o <<Reply("NAME")>>
    /\ trail' = [trail EXCEPT ![c] = <<"NAME">>]
    /\ submitted' = [submitted EXCEPT ![c] = Empty]
    /\ saved' = [saved EXCEPT ![c] = <<>>]
    /\ summary' = [summary EXCEPT ![c] = <<>>]
    /\ UNCHANGED <<variant, ORGANIZER_IDS, user_data>>

\* start: clear the store, prompt for the name, return NAME.  On a
\* re-entry the state it replaces is noted.
start(c) ==
    /\ StartTaken(c)
    /\ conv' = [conv EXCEPT ![c] = "NAME"]
    /\ user_data' = Empty
    /\ effects' = (IF conv[c] = END THEN <<>> ELSE << <<"reentry", conv[c]>> >>)
                  \o <<Reply("NAME")>>
    /\ trail' = [trail EXCEPT ![c] = <<"NAME">>]
    /\ submitted' = [submitted EXCEPT ![c] = Empty]
    /\ saved' = [saved EXCEPT ![c] = <<>>]
    /\ summary' = [summary EXCEPT ![c] = <<>>]
    /\ UNCHANGED <<variant, ORGANIZER_IDS>>

\* A free-text handler: store the stripped text under key, send the prompt
\* of the next state.
StoreText(c, raw, key, next) ==
    /\ Return(c, next, Put(user_data, key, strip(raw)), <<Reply(next)>>,
              Put(submitted[c], key, raw))
    /\ UNCHANGED <<variant, ORGANIZER_IDS, saved, summary>>

ask_workplace(c, raw) ==
    /\ TextTo(c, "NAME", raw)
    /\ StoreText(c, raw, "full_name", "WORKPLACE")

ask_career(c, raw) ==
    /\ TextTo(c, "WORKPLACE", raw)
    /\ StoreText(c, raw, "workplace", "CAREER")

ask_interests(c, raw) ==
    /\ TextTo(c, "CAREER", raw)
    /\ StoreText(c, raw, "career_field", "INTERESTS")

ask_networking(c, raw) ==
    /\ TextTo(c, "INTERESTS", raw)
    /\ Return(c, "NETWORKING",
              Put(Put(user_data, "interests", strip(raw)),
                  "networking_selected", {}),
              <<Reply("NETWORKING")>>,
              Put(submitted[c], "interests", raw))
    /\ UNCHANGED <<variant, ORGANIZER_IDS, saved, summary>>

\* selected.add(val), whether val is in selected or not.
Toggle_adds(selected, val) == selected \cup {val}

\* selected.remove(val) if val in selected else selected.add(val)
Toggle(selected, val) ==
    IF val \in selected THEN selected \ {val} ELSE selected \cup {val}

on_networking_cb(c, data) ==
    /\ CallbackTo(c, "NETWORKING", data)
    /\ LET selected == Get(user_data, "networking_selected", {})
       IN  IF StartsWith(data, "opt")
           THEN Return(c, "NETWORKING",
                       Put(user_data, "networking_selected",
                           Toggle(selected, SplitRest(data))),
                       <<Answer, <<"edit_markup", "NETWORKING">>>>,
                       submitted[c])
           ELSE IF data = Data("done", "ok")
           THEN IF selected = {}
                \* q.reply_text: a CallbackQuery has no such attribute
                THEN Stay(c, user_data, <<Answer, Raised("AttributeError")>>)
                ELSE Return(c, "REGION", user_data,
                            <<Answer, Reply("REGION")>>, submitted[c])
           ELSE Stay(c, user_data, <<Answer>>)
    /\ UNCHANGED <<variant, ORGANIZER_IDS, saved, summary>>

\* ask_languages giving one new set to both selections.
ask_languages_one_set(c, raw) ==
    /\ TextTo(c, "REGION", raw)
    /\ Return(c, "LANGUAGES",
              Put(Put(Put(user_data, "region", strip(raw)),
                      "languages_selected", {}),
                  "networking_selected", {}),
              <<Reply("LANGUAGES")>>,
              Put(submitted[c], "region", raw))
    /\ UNCHANGED <<variant, ORGANIZER_IDS, saved, summary>>

ask_languages(c, raw) ==
    /\ TextTo(c, "REGION", raw)
    /\ Return(c, "LANGUAGES",
              Put(Put(user_data, "region", strip(raw)),
                  "languages_selected", {}),
              <<Reply("LANGUAGES")>>,
              Put(submitted[c], "region", raw))
    /\ UNCHANGED <<variant, ORGANIZER_IDS, saved, summary>>

\* The languages handlers returning the state after the next one.
AfterLanguages_skips == IF variant = "mysql" THEN "PHONE" ELSE "MEET_FORMAT"

\* The state after LANGUAGES / LANGUAGES_TEXT.
AfterLanguages == IF variant = "mysql" THEN "MEET_FORMAT" ELSE "TOPICS"

on_languages_cb(c, data) ==
    /\ CallbackTo(c, "LANGUAGES", data)
    /\ LET selected == Get(user_data, "languages_selected", {})
       IN  IF StartsWith(data, "opt")
           THEN Return(c, "LANGUAGES",
                       Put(user_data, "languages_selected",
                           Toggle(selected, SplitRest(data))),
                       <<Answer, <<"edit_markup", "LANGUAGES">>>>,
                       submitted[c])
           ELSE IF data = Data("alt", "text")
           THEN Return(c, "LANGUAGES_TEXT", user_data,
                       <<Answer, Reply("LANGUAGES_TEXT")>>, submitted[c])
           ELSE IF data = Data("done", "ok")
           THEN IF selected = {} /\ Get(user_data, "languages_text", <<>>) = <<>>
                THEN Stay(c, user_data, <<Answer, Reply("reject")>>)
                ELSE Return(c, AfterLanguages, user_data,
                            <<Answer, Reply(AfterLanguages)>>, submitted[c])
           ELSE Stay(c, user_data, <<Answer>>)
    /\ UNCHANGED <<variant, ORGANIZER_IDS, saved, summary>>

languages_text_done(c, raw) ==
    /\ TextTo(c, "LANGUAGES_TEXT", raw)
    /\ Return(c, AfterLanguages,
              Put(user_data, "languages_text", strip(raw)),
              <<Reply(AfterLanguages)>>,
              Put(submitted[c], "languages_text", raw))
    /\ UNCHANGED <<variant, ORGANIZER_IDS, saved, summary>>

\* SQLite variant only.
ask_format(c, raw) ==
    /\ TextTo(c, "TOPICS", raw)
    /\ Return(c, "MEET_FORMAT", Put(user_data, "topics", strip(raw)),
              <<Reply("MEET_FORMAT")>>,
              Put(submitted[c], "topics", raw))
    /\ UNCHANGED <<variant, ORGANIZER_IDS, saved, summary>>

\* The state after MEET_FORMAT.
AfterFormat == IF variant = "mysql" THEN "PHONE" ELSE "SELF_DESC"

\* on_format_cb without the test of the "pick::" prefix.
on_format_cb_any_token(c, data) ==
    /\ CallbackTo(c, "MEET_FORMAT", data)
    /\ Return(c, AfterFormat,
              Put(user_data, "meet_format", Str(SplitRest(data))),
              <<Answer, Reply(AfterFormat)>>,
              Put(submitted[c], "meet_format", Str(SplitRest(data))))
    /\ UNCHANGED <<variant, ORGANIZER_IDS, saved, summary>>

on_format_cb(c, data) ==
    /\ CallbackTo(c, "MEET_FORMAT", data)
    /\ IF StartsWith(data, "pick")
       THEN Return(c, AfterFormat,
                   Put(user_data, "meet_format", Str(SplitRest(data))),
                   <<Answer, Reply(AfterFormat)>>,
                   Put(submitted[c], "meet_format", Str(SplitRest(data))))
       ELSE Stay(c, user_data, <<Answer>>)
    /\ UNCHANGED <<variant, ORGANIZER_IDS, saved, summary>>

----------------------------------------------------------------------------
(* Completion: build, save, export, receipt, notify *)

\* The loop over ORGANIZER_IDS left at the first send that fails.
Notifications_stop_at_failure(notifyOk) ==
    LET failed == { i \in 1..Len(ORGANIZER_IDS) : ~notifyOk[i] }
        last == IF failed = {} THEN Len(ORGANIZER_IDS)
                ELSE CHOOSE i \in failed : \A j \in failed : i <= j
    IN  [i \in 1..last |->
            <<IF notifyOk[i] THEN "notify" ELSE "notify_failed",
              ORGANIZER_IDS[i]>>]

\* for admin_id in ORGANIZER_IDS: try send_message except log.warning
Notifications(notifyOk) ==
    [i \in 1..Len(ORGANIZER_IDS) |->
        <<IF notifyOk[i] THEN "notify" ELSE "notify_failed", ORGANIZER_IDS[i]>>]

\* The completion with reg.save() in a try of its own, like the export:
\* a failed save is logged and the handler goes on to return END.
Finish_save_swallowed(c, ud, pre, subm) ==
    /\ Len(saved[c]) < MaxSaved
    /\ \E saveOk \in BOOLEAN, exportOk \in BOOLEAN,
          notifyOk \in [1..Len(ORGANIZER_IDS) -> BOOLEAN] :
          /\ Return(c, END, ud,
                    pre \o << <<"save", IF saveOk THEN "ok" ELSE "failed">>,
                              <<"export", IF exportOk THEN "ok" ELSE "failed">>,
                              Reply("receipt") >>
                        \o Notifications(notifyOk),
                    subm)
          /\ saved' = [saved EXCEPT ![c] = IF saveOk
                                           THEN Append(@, from_context(ud))
                                           ELSE @]
    /\ UNCHANGED <<variant, ORGANIZER_IDS, summary>>

\* reg = Registration.from_context(...); reg.save(); export in a try;
\* the receipt; the organizers, each in a try; return END.  reg.save() is
\* outside any try: when it raises, the handler raises.
Finish(c, ud, pre, subm) ==
    /\ Len(saved[c]) < MaxSaved
    /\ \E saveOk \in BOOLEAN, exportOk \in BOOLEAN,
          notifyOk \in [1..Len(ORGANIZER_IDS) -> BOOLEAN] :
          LET reg == from_context(ud)
          IN  IF saveOk
              THEN /\ Return(c, END, ud,
                             pre \o << <<"save", "ok">>,
                                       <<"export", IF exportOk THEN "ok" ELSE "failed">>,
                                       Reply("receipt") >>
                                 \o Notifications(notifyOk),
                             subm)
                   /\ saved' = [saved EXCEPT ![c] = Append(@, reg)]
              ELSE /\ user_data' = ud
                   /\ effects' = pre \o <<Raised("save")>>
                   /\ submitted' = [submitted EXCEPT ![c] = subm]
                   /\ UNCHANGED <<conv, trail, saved>>
    /\ UNCHANGED <<variant, ORGANIZER_IDS, summary>>

\* on_phone without the test of the length.
on_phone_any_length(c, kind, raw) ==
    /\ conv[c] = "PHONE"
    /\ Takes(variant, "PHONE", kind)
    /\ c \in FullChats
    /\ kind \in {"text", "contact"}
    /\ raw \in Seq(PhoneChars)
    /\ LET phone == sanitize_phone(IF kind = "text" THEN strip(raw) ELSE raw)
       IN  IF phone = <<>>
           THEN /\ Stay(c, user_data, <<Reply("reject")>>)
                /\ UNCHANGED <<variant, ORGANIZER_IDS, saved, summary>>
           ELSE Finish(c, Put(Put(user_data, "topics", phone), "self_desc", <<>>),
                       <<>>, Put(submitted[c], "topics", raw))

\* on_phone with the phone stored under a key of its own.
on_phone_own_key(c, kind, raw) ==
    /\ conv[c] = "PHONE"
    /\ Takes(variant, "PHONE", kind)
    /\ c \in FullChats
    /\ kind \in {"text", "contact"}
    /\ raw \in Seq(PhoneChars)
    /\ LET phone == sanitize_phone(IF kind = "text" THEN strip(raw) ELSE raw)
       IN  IF phone = <<>> \/ Len(phone) < 7
           THEN /\ Stay(c, user_data, <<Reply("reject")>>)
                /\ UNCHANGED <<variant, ORGANIZER_IDS, saved, summary>>
           ELSE Finish(c, Put(user_data, "phone", phone),
                       <<>>, Put(submitted[c], "topics", raw))

\* MySQL variant only.  kind: "text" (message.text.strip()) or "contact"
\* (message.contact.phone_number); the inputs are bounded where the
\* handler is used.
on_phone(c, kind, raw) ==
    /\ conv[c] = "PHONE"
    /\ Takes(variant, "PHONE", kind)
    /\ c \in FullChats
    /\ kind \in {"text", "contact"}
    /\ raw \in Seq(PhoneChars)
    /\ LET phone == sanitize_phone(IF kind = "text" THEN strip(raw) ELSE raw)
       IN  IF phone = <<>> \/ Len(phone) < 7
           THEN /\ Stay(c, user_data, <<Reply("reject")>>)
                /\ UNCHANGED <<variant, ORGANIZER_IDS, saved, summary>>
           ELSE Finish(c, Put(Put(user_data, "topics", phone), "self_desc", <<>>),
                       <<>>, Put(submitted[c], "topics", raw))

\* SQLite variant only: the handler of SELF_DESC shows the summary.
confirm(c, raw) ==
    /\ TextTo(c, "SELF_DESC", raw)
    /\ LET ud == Put(user_data, "self_desc", strip(raw))
       IN  /\ Return(c, "CONFIRM", ud, <<Reply("CONFIRM")>>,
                     Put(submitted[c], "self_desc", raw))
           /\ summary' = [summary EXCEPT ![c] = <<from_context(ud)>>]
    /\ UNCHANGED <<variant, ORGANIZER_IDS, saved>>

\* on_confirm_cb with the restart branch ending the conversation as
\* cancel does.
on_confirm_cb_restart_ends(c, data) ==
    /\ CallbackTo(c, "CONFIRM", data)
    /\ IF data = Data("confirm", "restart")
       THEN /\ conv' = [conv EXCEPT ![c] = END]
            /\ user_data' = Empty
            /\ effects' = <<Answer, Reply("cancelled")>>
            /\ trail' = [trail EXCEPT ![c] = <<>>]
            /\ submitted' = [submitted EXCEPT ![c] = Empty]
            /\ summary' = [summary EXCEPT ![c] = <<>>]
            /\ UNCHANGED <<variant, ORGANIZER_IDS, saved>>
       ELSE IF data = Data("confirm", "yes")
       THEN Finish(c, user_data, <<Answer>>,
                   Put(submitted[c], "confirm", Str("yes")))
       ELSE /\ Stay(c, user_data, <<Answer>>)
            /\ UNCHANGED <<variant, ORGANIZER_IDS, saved, summary>>

\* SQLite variant only.
on_confirm_cb(c, data) ==
    /\ CallbackTo(c, "CONFIRM", data)
    /\ IF data = Data("confirm", "restart")
       THEN /\ conv' = [conv EXCEPT ![c] = "NAME"]
            /\ user_data' = Empty
            /\ effects' = <<Answer, Reply("NAME")>>
            /\ trail' = [trail EXCEPT ![c] = <<"NAME">>]
            /\ submitted' = [submitted EXCEPT ![c] = Empty]
            /\ summary' = [summary EXCEPT ![c] = <<>>]
            /\ UNCHANGED <<variant, ORGANIZER_IDS, saved>>
       ELSE IF data = Data("confirm", "yes")
       THEN Finish(c, user_data, <<Answer>>,
                   Put(submitted[c], "confirm", Str("yes")))
       ELSE /\ Stay(c, user_data, <<Answer>>)
            /\ UNCHANGED <<variant, ORGANIZER_IDS, saved, summary>>

----------------------------------------------------------------------------
(* Cancel, and the updates no handler of the conversation takes *)

\* fallbacks=[CommandHandler("cancel", cancel)]: tried when a conversation
\* is live and no handler of its state takes the update; the state the
\* fallback is taken in is noted.
\* The fallbacks tried whether a conversation is live or not.
CancelTaken_without_session(c) == ~Takes(variant, conv[c], "command")

CancelTaken(c) ==
    /\ conv[c] # END
    /\ ~Takes(variant, conv[c], "command")

\* cancel without context.user_data.clear().
cancel_keeps_store(c) ==
    /\ CancelTaken(c)
    /\ conv' = [conv EXCEPT ![c] = END]
    /\ effects' = << <<"fallback", conv[c]>>, Reply("cancelled") >>
    /\ trail' = [trail EXCEPT ![c] = <<>>]
    /\ submitted' = [submitted EXCEPT ![c] = Empty]
    /\ summary' = [summary EXCEPT ![c] = <<>>]
    /\ UNCHANGED <<variant, ORGANIZER_IDS, user_data, saved>>

\* cancel saving what the store holds before it clears it.
cancel_saves_partial(c) ==
    /\ CancelTaken(c)
    /\ conv' = [conv EXCEPT ![c] = END]
    /\ user_data' = Empty
    /\ effects' = << <<"fallback", conv[c]>>, Reply("cancelled") >>
    /\ trail' = [trail EXCEPT ![c] = <<>>]
    /\ submitted' = [submitted EXCEPT ![c] = Empty]
    /\ summary' = [summary EXCEPT ![c] = <<>>]
    /\ saved' = [saved EXCEPT ![c] = Append(@, from_context(user_data))]
    /\ UNCHANGED <<variant, ORGANIZER_IDS>>

cancel(c) ==
    /\ CancelTaken(c)
    /\ conv' = [conv EXCEPT ![c] = END]
    /\ user_data' = Empty
    /\ effects' = << <<"fallback", conv[c]>>, Reply("cancelled") >>
    /\ trail' = [trail EXCEPT ![c] = <<>>]
    /\ submitted' = [submitted EXCEPT ![c] = Empty]
    /\ summary' = [summary EXCEPT ![c] = <<>>]
    /\ UNCHANGED <<variant, ORGANIZER_IDS, saved>>

\* No entry point, state handler or fallback matches, and no other handler
\* of the application does: the update is dropped.
Dropped ==
    /\ effects' = <<>>
    /\ UNCHANGED <<variant, ORGANIZER_IDS, conv, user_data, trail,
                   submitted, saved, summary>>

unhandled_text(c) ==
    /\ c \in FullChats
    /\ ~Takes(variant, conv[c], "text")
    /\ Dropped

unhandled_contact(c) ==
    /\ c \in FullChats
    /\ ~Takes(variant, conv[c], "contact")
    /\ Dropped

unhandled_callback(c) ==
    /\ c \in FullChats
    /\ Pressable # {}
    /\ ~Takes(variant, conv[c], "callback")
    /\ Dropped

unhandled_cancel(c) ==
    /\ ~CancelTaken(c)
    /\ Dropped

\* /help, /whoami, /stats, /export_excel: handlers of the application
\* outside the conversation; they answer and touch nothing of it.
other_command(c) ==
    /\ effects' = <<Reply("command")>>
    /\ UNCHANGED <<variant, ORGANIZER_IDS, conv, user_data, trail,
                   submitted, saved, summary>>

----------------------------------------------------------------------------
(* Specification *)

Init ==
    /\ variant \in {"mysql", "sqlite"}
    /\ ORGANIZER_IDS = parse_admins(DocEnv)
    /\ conv = [c \in Chats |-> END]
    /\ user_data = Empty
    /\ effects = <<>>
    /\ trail = [c \in Chats |-> <<>>]
    /\ submitted = [c \in Chats |-> Empty]
    /\ saved = [c \in Chats |-> <<>>]
    /\ summary = [c \in Chats |-> <<>>]

Next ==
    \E c \in Chats :
        \/ start(c)
        \/ cancel(c)
        \/ \E raw \in TextInputs :
              \/ ask_workplace(c, raw)
              \/ ask_career(c, raw)
              \/ ask_interests(c, raw)
              \/ ask_networking(c, raw)
              \/ ask_languages(c, raw)
              \/ languages_text_done(c, raw)
              \/ ask_format(c, raw)
              \/ confirm(c, raw)
        \/ \E data \in PressedData :
              \/ on_networking_cb(c, data)
              \/ on_languages_cb(c, data)
              \/ on_format_cb(c, data)
              \/ on_confirm_cb(c, data)
        \/ \E kind \in {"text", "contact"}, raw \in PhoneInputs :
              on_phone(c, kind, raw)
        \/ unhandled_text(c)
        \/ unhandled_contact(c)
        \/ unhandled_callback(c)
        \/ unhandled_cancel(c)
        \/ other_command(c)

Spec == Init /\ [][Next]_vars

----------------------------------------------------------------------------
(* Sessions, steps and records *)

\* The conversation of chat c is in progress.
Live(c) == conv[c] # END

\* The conversation of chat c ended by its last handler returning END.
Completed(c) == trail[c] # <<>> /\ trail[c][Len(trail[c])] = END

\* The steps of the flow, in order: the states, LANGUAGES_TEXT being the
\* text mode of the LANGUAGES step.
Steps(v) == SelectSeq(States(v), LAMBDA st : st # "LANGUAGES_TEXT")

StepOf(st) == IF st = "LANGUAGES_TEXT" THEN "LANGUAGES" ELSE st

Pos(v, st) == CHOOSE i \in 1..Len(Steps(v)) : Steps(v)[i] = StepOf(st)

StepCount(v) == Len(Steps(v))

\* The user_data key the handler of a step writes its answer to; CONFIRM
\* writes none.
StepKey(st) ==
    CASE st = "NAME" -> "full_name"
      [] st = "WORKPLACE" -> "workplace"
      [] st = "CAREER" -> "career_field"
      [] st = "INTERESTS" -> "interests"
      [] st = "NETWORKING" -> "networking_selected"
      [] st = "REGION" -> "region"
      [] st = "LANGUAGES" -> "languages_selected"
      [] st = "TOPICS" -> "topics"
      [] st = "MEET_FORMAT" -> "meet_format"
      [] st = "SELF_DESC" -> "self_desc"
      [] st = "PHONE" -> "topics"
      [] OTHER -> "none"

\* The free-text and single-select steps whose answer is a field of the
\* record as given.
AnswerSteps(v) ==
    { st \in Range(Steps(v)) :
        st \notin {"NETWORKING", "LANGUAGES", "PHONE", "CONFIRM"} }

\* The key under which the last answer of a session is noted.
LastKey(v) == IF v = "mysql" THEN "topics" ELSE "confirm"

----------------------------------------------------------------------------
(* C1 *)

\* The session of chat c has given, in order, a valid answer to every step:
\* no text was blank, the languages were confirmed with "done", and the
\* last step's answer was given.
ScriptDone(c) ==
    /\ LastKey(variant) \in DOMAIN submitted[c]
    /\ Blanks(c) = {}
    /\ "languages_text" \notin DOMAIN submitted[c]

\* C1: once a session has given a valid answer to each step in order, its
\* conversation is at END (Completed), having made exactly StepCount
\* advancing transitions since NAME, one per step.
C1_ValidScriptCompletes ==
    \A c \in Chats :
        ScriptDone(c) =>
            /\ Completed(c)
            /\ Len(trail[c]) = StepCount(variant) + 1

----------------------------------------------------------------------------
(* C2 *)

----------------------------------------------------------------------------
(* C3 *)

\* C3: every record saved holds, for each free-text and single-select step,
\* the answer submitted at that step with its surrounding whitespace
\* removed, and none of these fields is empty.
C3_RecordHoldsAnswers ==
    \A c \in Chats : \A i \in 1..Len(saved[c]) :
        \A st \in AnswerSteps(variant) :
            LET k == StepKey(st)
            IN  /\ saved[c][i][k] # <<>>
                /\ k \in DOMAIN submitted[c]
                /\ saved[c][i][k] = strip(submitted[c][k])

----------------------------------------------------------------------------
(* C4 *)

\* A blank text of chat c is taken by the handler of a free-text step.
BlankTextTaken(c) ==
    \E raw \in TextInputs :
        /\ strip(raw) = <<>>
        /\ \/ ask_workplace(c, raw)
           \/ ask_career(c, raw)
           \/ ask_interests(c, raw)
           \/ ask_networking(c, raw)
           \/ ask_languages(c, raw)
           \/ languages_text_done(c, raw)

\* C4: a text that is empty once stripped, sent while NAME, WORKPLACE,
\* CAREER, INTERESTS, REGION or LANGUAGES_TEXT is awaited, leaves the
\* conversation in its step, stores nothing and is answered with a
\* rejection message.
C4_BlankTextRejected ==
    [][ \A c \in Chats :
          BlankTextTaken(c) =>
              /\ UNCHANGED <<conv, user_data>>
              /\ Reply("reject") \in Range(effects') ]_vars

----------------------------------------------------------------------------
(* C5 *)

\* "done::ok" is handled in NETWORKING or LANGUAGES while the selection of
\* the step is empty and there is no supplementary text.
DoneOnEmpty(c) ==
    \/ /\ on_networking_cb(c, Data("done", "ok"))
       /\ Get(user_data, "networking_selected", {}) = {}
    \/ /\ on_languages_cb(c, Data("done", "ok"))
       /\ Get(user_data, "languages_selected", {}) = {}
       /\ Get(user_data, "languages_text", <<>>) = <<>>

\* C5: a "done::ok" on a multi-select step with nothing selected and no
\* supplementary text changes neither the state nor the store and is
\* answered with a rejection message.
C5_EmptyDoneRejected ==
    [][ \A c \in Chats :
          DoneOnEmpty(c) =>
              /\ UNCHANGED <<conv, user_data>>
              /\ Reply("reject") \in Range(effects') ]_vars

----------------------------------------------------------------------------
(* C6 *)

\* C6: the handling of no update ends in an error raised out of a handler.
C6_NoHandlerError ==
    \A i \in 1..Len(effects) : effects[i][1] # "error"

----------------------------------------------------------------------------
(* C7 *)

\* C7: /cancel is taken in every state of a conversation in progress; it
\* empties the store (answers and selection sets) and ends the
\* conversation; a conversation that is not in progress stays so until a
\* /start, which puts it at NAME with an empty store.
C7_CancelEndsSession ==
    [][ \A c \in Chats :
          /\ Live(c) => CancelTaken(c)
          /\ cancel(c) => (conv'[c] = END /\ user_data' = Empty)
          /\ (~Live(c) /\ conv'[c] # END) =>
                 (conv'[c] = "NAME" /\ user_data' = Empty) ]_vars

\* /cancel was taken while the text mode of LANGUAGES was awaited.
C7_Witness ==
    \E c \in Chats :
        /\ effects = << <<"fallback", "LANGUAGES_TEXT">>, Reply("cancelled") >>
        /\ conv[c] = END
        /\ user_data = Empty

----------------------------------------------------------------------------
(* C8 *)

\* The value the record holds for an answer given as raw.
Expected(v, k, raw) ==
    IF v = "mysql" /\ k = "topics" THEN sanitize_phone(raw) ELSE strip(raw)

\* C8: /start is taken in every state of a conversation in progress and
\* puts it at NAME with an empty store; every text, pick and phone field
\* of a record is empty or the answer of the session that saved it.
C8_StartReplaces ==
    [][ \A c \in Chats :
          /\ Live(c) => StartTaken(c)
          /\ start(c) => (conv'[c] = "NAME" /\ user_data' = Empty)
          /\ \A i \in 1..Len(saved[c]) :
                \A st \in Range(Steps(variant)) \ {"NETWORKING", "LANGUAGES",
                                                    "CONFIRM"} :
                    LET k == StepKey(st)
                    IN  \/ saved[c][i][k] = <<>>
                        \/ /\ k \in DOMAIN submitted[c]
                           /\ saved[c][i][k]
                                = Expected(variant, k, submitted[c][k]) ]_vars

\* /start was taken while MEET_FORMAT was awaited.
C8_Witness ==
    \E c \in Chats :
        /\ effects = << <<"reentry", "MEET_FORMAT">>, Reply("NAME") >>
        /\ conv[c] = "NAME"
        /\ user_data = Empty

----------------------------------------------------------------------------
(* C9 *)

\* C9: at most one conversation of the user is in progress at a time.
C9_OneLiveSession ==
    Cardinality({ c \in Chats : Live(c) }) <= 1

----------------------------------------------------------------------------
(* C10 *)

\* The store holds the entry of step st, and for a multi-select step the
\* selection or the supplementary text is not empty.
EntryOk(st) ==
    /\ StepKey(st) \in DOMAIN user_data
    /\ st = "NETWORKING" => user_data["networking_selected"] # {}
    /\ st = "LANGUAGES" =>
           \/ user_data["languages_selected"] # {}
           \/ Get(user_data, "languages_text", <<>>) # <<>>

\* C10: while a conversation is in progress, the store holds an entry for
\* each step before the current one, with a selection or a supplementary
\* text for a multi-select step, and no entry for a step after the
\* current one.
C10_StoreMatchesProgress ==
    \A c \in Chats :
        Live(c) =>
            \A i \in 1..StepCount(variant) :
                LET st == Steps(variant)[i]
                IN  /\ i < Pos(variant, conv[c]) /\ st # "CONFIRM" => EntryOk(st)
                    /\ i > Pos(variant, conv[c]) =>
                           StepKey(st) \notin DOMAIN user_data
----------------------------------------------------------------------------
(* C11 *)

\* State b may follow state a: b ends the conversation, b is the text mode
\* entered from LANGUAGES, or b is the step right after the step of a.
StepAfter(v, a, b) ==
    \/ b = END
    \/ a = "LANGUAGES" /\ b = "LANGUAGES_TEXT"
    \/ /\ b # "LANGUAGES_TEXT"
       /\ Pos(v, b) = Pos(v, a) + 1

\* C11: a conversation in progress is where its trail ends; the trail
\* starts at NAME (a /start or a restart from the confirmation begins it
\* anew) and each state entered since is the step right after the one
\* before, LANGUAGES_TEXT entered from LANGUAGES only, or END: no step is
\* skipped and none is gone back to.
C11_StepsInOrder ==
    \A c \in Chats :
        /\ Live(c) => (trail[c] # <<>> /\ trail[c][Len(trail[c])] = conv[c])
        /\ trail[c] # <<>> => trail[c][1] = "NAME"
        /\ \A i \in 1..(Len(trail[c]) - 1) :
               StepAfter(variant, trail[c][i], trail[c][i + 1])

\* A conversation completed through the text mode of LANGUAGES, every step
\* entered once.
C11_Witness ==
    \E c \in Chats :
        /\ Completed(c)
        /\ "LANGUAGES_TEXT" \in Range(trail[c])
        /\ Len(trail[c]) = StepCount(variant) + 2
----------------------------------------------------------------------------
(* C12 *)

\* The listings of set S: each element once.
Listings(S) == { l \in [1..Cardinality(S) -> S] : Range(l) = S }

\* l is in ascending code-point order.
Ascending(l) ==
    \A i \in 1..(Len(l) - 1) : SortKey(l[i]) < SortKey(l[i + 1])

\* g is the options of S in ascending order, then the supplementary text
\* when there is one, with ", " between them.
FieldOf(S, text, g) ==
    \E l \in Listings(S) :
        /\ Ascending(l)
        /\ g = join(Texts(l) \o (IF text # <<>> THEN <<text>> ELSE <<>>))

\* The last update saved the record of chat c.
JustSaved(c) == Completed(c) /\ <<"save", "ok">> \in Range(effects)

\* C12: the record saved holds, for networking_goals and for languages,
\* the options selected in sorted order followed by the supplementary text
\* when present: the value is a function of the final selection, whatever
\* the order of the toggles.
C12_SortedSelections ==
    \A c \in Chats :
        JustSaved(c) =>
            LET r == saved[c][Len(saved[c])]
            IN  /\ FieldOf(Get(user_data, "networking_selected", {}), <<>>,
                           r.networking_goals)
                /\ FieldOf(Get(user_data, "languages_selected", {}),
                           Get(user_data, "languages_text", <<>>),
                           r.languages)

\* A record whose languages are two options toggled in any order and a
\* supplementary text.
C12_Witness ==
    \E c \in Chats :
        /\ JustSaved(c)
        /\ Cardinality(Get(user_data, "languages_selected", {})) = 2
        /\ saved[c][1].languages
             = <<"Ozbekcha", ", ", "Yangi tanishlar", ", ", "a">>
----------------------------------------------------------------------------
(* The multi-select steps on their own: every option button *)

\* The multi-select steps.
MultiSteps == {"NETWORKING", "LANGUAGES"}

\* The store as the handler that enters multi-select step st leaves it
\* (ask_networking, ask_languages), after answers " a " to the texts before.
StoreAt(st) ==
    LET a == strip(<<SP, "a", SP>>)
        upto == [k \in {"full_name", "workplace", "career_field", "interests"}
                    |-> a]
    IN  IF st = "NETWORKING"
        THEN Put(upto, "networking_selected", {})
        ELSE Put(Put(Put(upto, "networking_selected", {"Yangi tanishlar"}),
                     "region", a),
                 "languages_selected", {})

\* The private conversation has just entered a multi-select step.
InitSelect ==
    /\ variant \in {"mysql", "sqlite"}
    /\ ORGANIZER_IDS = parse_admins(DocEnv)
    /\ \E st \in MultiSteps :
          /\ conv = [c \in Chats |-> IF c \in FullChats THEN st ELSE END]
          /\ user_data = StoreAt(st)
          /\ effects = <<Reply(st)>>
          /\ trail = [c \in Chats |->
                        IF c \in FullChats
                        THEN SubSeq(States(variant), 1, Pos(variant, st))
                        ELSE <<>>]
          /\ submitted = [c \in Chats |->
                            IF c \in FullChats
                            THEN [k \in DOMAIN StoreAt(st)
                                        \ {"networking_selected",
                                           "languages_selected"}
                                    |-> <<SP, "a", SP>>]
                            ELSE Empty]
    /\ saved = [c \in Chats |-> <<>>]
    /\ summary = [c \in Chats |-> <<>>]

\* The option buttons of every keyboard in the chat are pressed, in any
\* order and any number of times.
NextSelect ==
    \E c \in Chats :
        \E data \in { d \in AllButtons(variant) : StartsWith(d, "opt") } :
            \/ on_networking_cb(c, data)
            \/ on_languages_cb(c, data)

SpecSelect == InitSelect /\ [][NextSelect]_vars

\* The options, the selection key and the with_text_alt flag of the
\* keyboard of a multi-select step.
OptionsOf(st) ==
    IF st = "NETWORKING" THEN NETWORKING_OPTIONS ELSE LANGUAGE_OPTIONS

SelectedKey(st) ==
    IF st = "NETWORKING" THEN "networking_selected" ELSE "languages_selected"

\* The keyboard the handler of step st renders for the selection sel.
KeyboardOf(st, sel) ==
    make_multiselect_kb(OptionsOf(st), sel, TRUE, st = "LANGUAGES")

----------------------------------------------------------------------------
(* C13 *)

\* An "opt::X" press is handled in the multi-select step st of chat c.
Toggled(c, st, data) ==
    /\ StartsWith(data, "opt")
    /\ IF st = "NETWORKING"
       THEN on_networking_cb(c, data)
       ELSE on_languages_cb(c, data)

\* C13: when an "opt::X" press has been handled in NETWORKING or in
\* LANGUAGES, the selection has changed, and the same press once more
\* gives the selection there was before the first, with the keyboard
\* rendered for it identical to the keyboard of before.
C13_ToggleTwice ==
    [][ \A c \in Chats, st \in MultiSteps, data \in AllButtons(variant) :
          Toggled(c, st, data) =>
              LET before == user_data[SelectedKey(st)]
                  once == user_data'[SelectedKey(st)]
                  twice == Toggle(once, SplitRest(data))
              IN  /\ once # before
                  /\ twice = before
                  /\ KeyboardOf(st, twice) = KeyboardOf(st, before) ]_vars

\* The selection of NETWORKING is empty again after a toggle.
C13_Witness ==
    \E c \in Chats :
        /\ conv[c] = "NETWORKING"
        /\ user_data["networking_selected"] = {}
        /\ effects = <<Answer, <<"edit_markup", "NETWORKING">>>>

----------------------------------------------------------------------------
(* C14 *)

\* C14: the keyboard of a multi-select step has one row per option, in the
\* order of the option list whatever the selection, each row marked
\* selected exactly when its option is in the selection, and after them
\* the row of the extra buttons: the keyboard is a function of the list
\* and the selection alone.
C14_OptionOrder ==
    \A c \in Chats :
        conv[c] \in MultiSteps =>
            LET opts == OptionsOf(conv[c])
                sel == user_data[SelectedKey(conv[c])]
                kb == KeyboardOf(conv[c], sel)
            IN  /\ Len(kb) = Len(opts) + 1
                /\ \A i \in 1..Len(opts) :
                       /\ Len(kb[i]) = 1
                       /\ kb[i][1].callback_data = Data("opt", opts[i])
                       /\ kb[i][1].text
                            = <<IF opts[i] \in sel THEN "checked" ELSE "blank",
                                opts[i]>>
                /\ Data("done", "ok") \in Buttons(<<kb[Len(kb)]>>)

\* NETWORKING with its second and fourth option selected and the first not.
C14_Witness ==
    \E c \in Chats :
        /\ conv[c] = "NETWORKING"
        /\ user_data["networking_selected"]
             = {"Hamkorlik imkoniyatlari", "Ilhom va goyalar"}
----------------------------------------------------------------------------
(* C15 *)

\* The step is a text or a contact of chat c taken by a handler.
MessageHandled(c) ==
    \/ \E raw \in TextInputs :
          \/ ask_workplace(c, raw)
          \/ ask_career(c, raw)
          \/ ask_interests(c, raw)
          \/ ask_networking(c, raw)
          \/ ask_languages(c, raw)
          \/ languages_text_done(c, raw)
          \/ ask_format(c, raw)
          \/ confirm(c, raw)
    \/ \E kind \in {"text", "contact"}, raw \in PhoneInputs :
          on_phone(c, kind, raw)

\* The step is a button press of chat c taken by a handler.
PressHandled(c) ==
    \E data \in PressedData :
        \/ on_networking_cb(c, data)
        \/ on_languages_cb(c, data)
        \/ on_format_cb(c, data)
        \/ on_confirm_cb(c, data)

\* C15: while NETWORKING, LANGUAGES or MEET_FORMAT is awaited in a chat, the
\* handlers of the state take no text and no handler acts on a text or a
\* contact of the chat; while a free-text step or PHONE is awaited, the
\* handlers of the state take no button press and no handler acts on one;
\* and an update that no handler takes changes neither the state of a
\* conversation nor the store.
C15_MismatchIgnored ==
    [][ /\ \A c \in Chats :
              /\ conv[c] \in {"NETWORKING", "LANGUAGES", "MEET_FORMAT"}
                     => (~Takes(variant, conv[c], "text")
                         /\ ~MessageHandled(c))
              /\ conv[c] \in {"NAME", "WORKPLACE", "CAREER", "INTERESTS",
                              "REGION", "LANGUAGES_TEXT", "PHONE"}
                     => (~Takes(variant, conv[c], "callback")
                         /\ ~PressHandled(c))
        /\ effects' = <<>> => UNCHANGED <<conv, user_data>> ]_vars

\* A message arrived while NETWORKING was awaited with an option selected,
\* and no handler took it.
C15_Witness ==
    \E c \in FullChats :
        /\ conv[c] = "NETWORKING"
        /\ Get(user_data, "networking_selected", {}) = {"Yangi tanishlar"}
        /\ effects = <<>>
----------------------------------------------------------------------------
(* C16 *)

\* The user has no conversation in progress in any chat.
NoSession == \A c \in Chats : ~Live(c)

\* C16: a chat without a conversation in progress gets one by a /start of
\* the chat only, and until then no record is saved for it; while the user
\* has no conversation in progress anywhere, only a /start changes the
\* store.
C16_OnlyStartCreates ==
    [][ /\ \A c \in Chats :
              ~Live(c) =>
                  \/ conv'[c] = END /\ saved'[c] = saved[c]
                  \/ start(c)
        /\ NoSession => (user_data' = user_data \/ \E c \in Chats : start(c))
      ]_vars

\* After a conversation completed, an update arrived that no handler took,
\* and the user is still without a conversation.
C16_Witness ==
    \E c \in Chats :
        /\ Completed(c)
        /\ Len(saved[c]) = 1
        /\ NoSession
        /\ effects = <<>>
----------------------------------------------------------------------------
(* C17 *)

\* A text, a contact, a button press or a /cancel of chat c that no handler
\* takes.
NotTaken(c) ==
    \/ unhandled_text(c)
    \/ unhandled_contact(c)
    \/ unhandled_callback(c)
    \/ unhandled_cancel(c)

\* C17: an event other than /start that arrives in a chat without a
\* conversation in progress is answered with a message (the one that tells
\* the user to send /start).
C17_NoSessionPrompt ==
    [][ \A c \in Chats :
          (~Live(c) /\ NotTaken(c)) =>
              \E i \in 1..Len(effects') : effects'[i][1] = "reply" ]_vars
----------------------------------------------------------------------------
(* C18 *)

\* C18: a conversation that completed is not in progress and the store
\* holds nothing: none of the answers or selection sets of the session.
C18_CompletedDestroyed ==
    \A c \in Chats :
        Completed(c) => (~Live(c) /\ DOMAIN user_data = {})

----------------------------------------------------------------------------
(* C19 *)

\* C19: when the handling of an update saved the record, whatever became
\* of the export and of each notification, the conversation completed
\* with its one record kept, the receipt was sent, and the notification
\* of every organizer was attempted.
C19_PartialDelivery ==
    <<"save", "ok">> \in Range(effects) =>
        /\ \E c \in Chats : Completed(c) /\ Len(saved[c]) = 1
        /\ Reply("receipt") \in Range(effects)
        /\ \A i \in 1..Len(ORGANIZER_IDS) :
               \/ <<"notify", ORGANIZER_IDS[i]>> \in Range(effects)
               \/ <<"notify_failed", ORGANIZER_IDS[i]>> \in Range(effects)

\* The export and the notification of the first organizer failed, the
\* second organizer was notified, the conversation completed.
C19_Witness ==
    \E c \in Chats :
        /\ Completed(c)
        /\ Len(saved[c]) = 1
        /\ <<"export", "failed">> \in Range(effects)
        /\ <<"notify_failed", ORGANIZER_IDS[1]>> \in Range(effects)
        /\ effects[Len(effects)] = <<"notify", ORGANIZER_IDS[2]>>

----------------------------------------------------------------------------
(* C20 *)

\* C20: when the save of the record failed, the conversation that
\* submitted it is completed all the same: it is not left in progress at
\* its last step.
C20_SaveFailureCompletes ==
    Raised("save") \in Range(effects) =>
        \A c \in FullChats : Completed(c) /\ ~Live(c)

----------------------------------------------------------------------------
(* The last steps on their own: every button, a wide range of phones *)

\* The store when MEET_FORMAT is entered, after answers " a " to the texts
\* before, "Yangi tanishlar" and "Ozbekcha" toggled and confirmed.
StoreLast(v) ==
    LET upto == Put(StoreAt("LANGUAGES"), "languages_selected", {"Ozbekcha"})
    IN  IF v = "mysql" THEN upto
        ELSE Put(upto, "topics", strip(<<SP, "a", SP>>))

\* The private conversation has just entered MEET_FORMAT (from
\* on_languages_cb in the MySQL variant, from ask_format in the SQLite one).
EnteredFormat ==
    /\ variant \in {"mysql", "sqlite"}
    /\ conv = [c \in Chats |-> IF c \in FullChats THEN "MEET_FORMAT" ELSE END]
    /\ user_data = StoreLast(variant)
    /\ effects = IF variant = "mysql"
                 THEN <<Answer, Reply("MEET_FORMAT")>>
                 ELSE <<Reply("MEET_FORMAT")>>
    /\ trail = [c \in Chats |->
                  IF c \in FullChats
                  THEN SubSeq(Steps(variant), 1, Pos(variant, "MEET_FORMAT"))
                  ELSE <<>>]
    /\ submitted = [c \in Chats |->
                      IF c \in FullChats
                      THEN [k \in DOMAIN StoreLast(variant)
                                  \ {"networking_selected",
                                     "languages_selected"}
                              |-> <<SP, "a", SP>>]
                      ELSE Empty]
    /\ saved = [c \in Chats |-> <<>>]
    /\ summary = [c \in Chats |-> <<>>]

InitLast == ORGANIZER_IDS = parse_admins(DocEnv) /\ EnteredFormat

\* Every button of every keyboard in the chat is pressed, the texts are
\* sent, and the phones of WidePhoneInputs are sent as text or as contact.
NextLast ==
    \E c \in Chats :
        \/ \E data \in AllButtons(variant) :
              \/ on_format_cb(c, data)
              \/ on_confirm_cb(c, data)
        \/ \E raw \in TextInputs : confirm(c, raw)
        \/ \E kind \in {"text", "contact"}, raw \in WidePhoneInputs :
              on_phone(c, kind, raw)

SpecLast == InitLast /\ [][NextLast]_vars

----------------------------------------------------------------------------
(* C21 *)

\* meet_format, when the store holds it, is one option of FORMAT_OPTIONS.
OneFormat(ud) ==
    "meet_format" \in DOMAIN ud =>
        \E o \in Range(FORMAT_OPTIONS) : ud["meet_format"] = Str(o)

\* C21: a "pick::X" press handled in MEET_FORMAT stores X, an option of
\* FORMAT_OPTIONS, as meet_format, changes nothing else of the store and
\* puts the conversation at the next step at once; and meet_format is
\* never anything but one option of FORMAT_OPTIONS.
C21_SinglePick ==
    [][ /\ \A c \in Chats, data \in AllButtons(variant) :
              (StartsWith(data, "pick") /\ on_format_cb(c, data)) =>
                  /\ SplitRest(data) \in Range(FORMAT_OPTIONS)
                  /\ user_data' = Put(user_data, "meet_format",
                                      Str(SplitRest(data)))
                  /\ conv[c] = "MEET_FORMAT"
                  /\ conv'[c] = AfterFormat
        /\ OneFormat(user_data)
        /\ OneFormat(user_data') ]_vars

\* The third option was picked and the next step is awaited.
C21_Witness ==
    \E c \in Chats :
        /\ conv[c] = AfterFormat
        /\ Get(user_data, "meet_format", <<>>) = Str("Gibrid")
        /\ effects = <<Answer, Reply(AfterFormat)>>

----------------------------------------------------------------------------
(* C22 *)

\* The languages field of a record for the selection sel and the
\* supplementary text given as raw.
LanguagesOf(sel, raw) ==
    join(Texts(sorted(sel))
         \o (IF strip(raw) # <<>> THEN <<strip(raw)>> ELSE <<>>))

\* C22: "alt::text" handled in LANGUAGES puts the conversation at
\* LANGUAGES_TEXT and leaves the store as it is; the text received there is
\* stored stripped as languages_text, the selection and the rest of the
\* store unchanged, and the conversation goes to the step after LANGUAGES;
\* and the record a conversation saves after giving such a text lists the
\* selected options and then that text.
C22_TextAlongside ==
    [][ \A c \in Chats :
          /\ on_languages_cb(c, Data("alt", "text")) =>
                 (conv'[c] = "LANGUAGES_TEXT" /\ user_data' = user_data)
          /\ \A raw \in TextInputs :
                 languages_text_done(c, raw) =>
                     /\ user_data' = Put(user_data, "languages_text", strip(raw))
                     /\ conv'[c] = AfterLanguages
          /\ (/\ Len(saved'[c]) > Len(saved[c])
              /\ "languages_text" \in DOMAIN submitted'[c]) =>
                 saved'[c][Len(saved'[c])].languages
                   = LanguagesOf(Get(user_data', "languages_selected", {}),
                                 submitted'[c]["languages_text"]) ]_vars

----------------------------------------------------------------------------
(* C23 *)

\* C23: "confirm::restart" is handled in CONFIRM of the SQLite variant
\* only; it empties the store, saves no record, exports nothing, notifies
\* no organizer, and leaves the conversation in progress at NAME with the
\* prompt for the name sent.
C23_RestartFromConfirm ==
    [][ \A c \in Chats :
          on_confirm_cb(c, Data("confirm", "restart")) =>
              /\ variant = "sqlite"
              /\ conv[c] = "CONFIRM"
              /\ user_data' = Empty
              /\ saved' = saved
              /\ conv'[c] = "NAME"
              /\ Reply("NAME") \in Range(effects')
              /\ \A i \in 1..Len(effects') :
                     effects'[i][1] \notin {"save", "export", "notify",
                                            "notify_failed"} ]_vars

\* The conversation is at NAME again by the restart button, nothing saved.
C23_Witness ==
    \E c \in Chats :
        /\ conv[c] = "NAME"
        /\ effects = <<Answer, Reply("NAME")>>
        /\ user_data = Empty
        /\ saved[c] = <<>>

----------------------------------------------------------------------------
(* C24 *)

\* C24: in the MySQL variant a completed conversation has its record, and
\* every record saved holds in topics the phone the conversation sent, as
\* sanitize_phone returns it, and in self_desc the empty string.
C24_PhoneInTopics ==
    variant = "mysql" =>
        \A c \in Chats :
            /\ Completed(c) => Len(saved[c]) = 1
            /\ \A i \in 1..Len(saved[c]) :
                   /\ "topics" \in DOMAIN submitted[c]
                   /\ saved[c][i].topics
                        = sanitize_phone(submitted[c]["topics"])
                   /\ saved[c][i].self_desc = <<>>

\* A conversation completed with the phone "a11111111-2": the record holds
\* "+111111112".
C24_Witness ==
    \E c \in Chats :
        /\ variant = "mysql"
        /\ Completed(c)
        /\ submitted[c]["topics"] = <<"a">> \o Ones(8) \o <<"-", "2">>
        /\ saved[c][1].topics = <<"+">> \o Ones(8) \o <<"2">>
        /\ saved[c][1].self_desc = <<>>

----------------------------------------------------------------------------
(* C25 *)

----------------------------------------------------------------------------
(* C26 *)

\* The phone as on_phone hands it to sanitize_phone.
PhoneGiven(kind, raw) == IF kind = "text" THEN strip(raw) ELSE raw

\* The sanitized form of the input is empty or shorter than 7 characters.
TooShort(kind, raw) == Len(sanitize_phone(PhoneGiven(kind, raw))) < 7

\* A phone that is valid as text and as contact.
ValidPhone == Ones(9)

\* The step left the conversation of chat c and the store as they were and
\* answered with the rejection alone.
RejectedAtPhone(c) ==
    /\ effects' = <<Reply("reject")>>
    /\ UNCHANGED <<conv, user_data, saved, trail, submitted>>

\* The step took a phone as the answer of chat c: the phone is what the
\* conversation is noted to have sent, and the completion was run.
TakenAtPhone(c) ==
    /\ "topics" \in DOMAIN submitted'[c]
    /\ user_data'["topics"] = sanitize_phone(submitted'[c]["topics"])
    /\ effects'[1] \in {<<"save", "ok">>, Raised("save")}

\* C26: an update handled while the MySQL variant awaits PHONE is either
\* rejected, with the conversation still at PHONE, the store and the
\* records as before and no effect but the rejection message, or taken as
\* the phone; a phone that is taken is never one whose sanitized form is
\* shorter than 7 characters; and at PHONE after a rejection a valid phone
\* is still taken and can complete the conversation.
C26_ShortPhoneRejected ==
    /\ [][ \A c \in FullChats :
              conv[c] = "PHONE" =>
                  \/ RejectedAtPhone(c)
                  \/ /\ TakenAtPhone(c)
                     /\ ~TooShort("text", submitted'[c]["topics"])
                     /\ ~TooShort("contact", submitted'[c]["topics"]) ]_vars
    /\ [](\A c \in FullChats :
             (conv[c] = "PHONE" /\ effects = <<Reply("reject")>>) =>
                 /\ Takes(variant, conv[c], "text")
                 /\ Takes(variant, conv[c], "contact")
                 /\ ENABLED (/\ on_phone(c, "text", ValidPhone)
                             /\ Completed(c)'
                             /\ Len(saved'[c]) = 1))

\* A phone was rejected in PHONE: nothing of it is in the store.
C26_Witness ==
    \E c \in Chats :
        /\ conv[c] = "PHONE"
        /\ effects = <<Reply("reject")>>
        /\ "topics" \notin DOMAIN user_data
        /\ saved[c] = <<>>

----------------------------------------------------------------------------
(* C27 *)

\* The characters of raw that are digits (str.isdigit) or "+", in order.
Cleaned(raw) == SelectSeq(raw, LAMBDA ch : isdigit(ch) \/ ch = "+")

\* p consists of digits and "+" only and has at least 7 characters.
PhoneShape(p) ==
    /\ Len(p) >= 7
    /\ \A j \in 1..Len(p) : isdigit(p[j]) \/ p[j] = "+"

----------------------------------------------------------------------------
(* C28 *)

\* The state of the last step.
LastState(v) == Steps(v)[StepCount(v)]

\* The handling of the update saved, exported or notified something.
Delivered(eff) ==
    \E i \in 1..Len(eff) :
        eff[i][1] \in {"save", "export", "notify", "notify_failed"}

\* C28: a conversation in progress has saved no record; a record is saved
\* for a chat only by a step that finds its conversation at the last state
\* and ends it, on a phone that is not too short (MySQL) or on
\* "confirm::yes" (SQLite); /cancel and /start save, export and notify
\* nothing and leave the conversation they end or replace without a
\* record; and nothing is exported or notified by a step that saves no
\* record.
C28_SavedByLastHandlerOnly ==
    [][ /\ \A c \in Chats :
              /\ Live(c) => saved[c] = <<>>
              /\ Len(saved'[c]) > Len(saved[c]) =>
                     /\ conv[c] = LastState(variant)
                     /\ conv'[c] = END
                     /\ Len(saved'[c]) = 1
                     /\ LastKey(variant) \in DOMAIN submitted'[c]
                     /\ IF variant = "mysql"
                        THEN ~TooShort("text", submitted'[c]["topics"])
                        ELSE submitted'[c]["confirm"] = Str("yes")
              /\ (cancel(c) \/ start(c)) =>
                     (saved'[c] = <<>> /\ ~Delivered(effects'))
        /\ Delivered(effects') =>
               \E c \in Chats : Len(saved'[c]) > Len(saved[c]) ]_vars

\* /cancel was taken at the last step: the conversation ended with no
\* record.
C28_Witness ==
    \E c \in Chats :
        /\ effects = << <<"fallback", LastState(variant)>>, Reply("cancelled") >>
        /\ conv[c] = END
        /\ saved[c] = <<>>
        /\ trail[c] = <<>>

----------------------------------------------------------------------------
(* C29 *)

\* The step leaves the entry of key k as it is, present or absent.
Kept(k) ==
    /\ (k \in DOMAIN user_data) = (k \in DOMAIN user_data')
    /\ k \in DOMAIN user_data => user_data'[k] = user_data[k]

\* The keys of the store that hold the answer of step st.
KeysOf(st) ==
    IF st = "LANGUAGES" THEN {"languages_selected", "languages_text"}
    ELSE {StepKey(st)} \ {"none"}

\* The step is a /start, a /cancel or a restart from the confirmation.
Resets ==
    \E c \in Chats :
        \/ start(c)
        \/ cancel(c)
        \/ on_confirm_cb(c, Data("confirm", "restart"))

\* The keys of the steps a conversation of variant v at state st has left.
LeftKeys ==
    [v \in {"mysql", "sqlite"} |->
        [st \in Range(States(v)) |->
            UNION { KeysOf(Steps(v)[i]) : i \in 1..(Pos(v, st) - 1) }]]

\* The values stored for the steps the conversations in progress have left
\* are kept, and a conversation that stays in NETWORKING or in LANGUAGES
\* sees nothing of the store change but the selection of that step.
FrameKept ==
    \A c \in Chats :
        /\ Live(c) => \A k \in LeftKeys[variant][conv[c]] : Kept(k)
        /\ (conv[c] \in MultiSteps /\ conv'[c] = conv[c]) =>
               \A k \in (DOMAIN user_data \cup DOMAIN user_data')
                          \ {SelectedKey(conv[c])} : Kept(k)

\* C29: a step that is not a /start, a /cancel or a restart from the
\* confirmation leaves as they are the values stored for the steps a
\* conversation in progress has left; and a step that leaves a
\* conversation in NETWORKING or in LANGUAGES (a toggle) changes nothing of
\* the store but the selection of that step.
C29_LeftStepsKept == [][FrameKept \/ Resets]_vars

\* "Yangi tanishlar" was toggled in LANGUAGES, on the keyboard of
\* NETWORKING: the selection of NETWORKING and the name are as they were.
C29_Witness ==
    \E c \in Chats :
        /\ conv[c] = "LANGUAGES"
        /\ effects = <<Answer, <<"edit_markup", "LANGUAGES">>>>
        /\ Get(user_data, "languages_selected", {}) = {"Yangi tanishlar"}
        /\ Get(user_data, "networking_selected", {}) = {"Yangi tanishlar"}
        /\ Get(user_data, "full_name", <<>>) = <<"a">>

----------------------------------------------------------------------------
(* C30 *)

\* C30: in the SQLite variant every record saved for a conversation is the
\* record its confirmation message showed when CONFIRM was entered.
C30_SavedIsSummary ==
    variant = "sqlite" =>
        \A c \in Chats : \A i \in 1..Len(saved[c]) :
            /\ summary[c] # <<>>
            /\ saved[c][i] = summary[c][1]

----------------------------------------------------------------------------
(* The last steps under every list of operators *)

\* The bot was started with any value of ORGANIZER_IDS in the environment;
\* the private conversation has just entered MEET_FORMAT.
InitOrganizers ==
    /\ \E raw \in EnvInputs : ORGANIZER_IDS = parse_admins(raw)
    /\ EnteredFormat

\* The buttons the user presses, the texts and the phones of the whole flow.
NextOrganizers ==
    \E c \in Chats :
        \/ \E data \in PressedData :
              \/ on_format_cb(c, data)
              \/ on_confirm_cb(c, data)
        \/ \E raw \in TextInputs : confirm(c, raw)
        \/ \E kind \in {"text", "contact"}, raw \in PhoneInputs :
              on_phone(c, kind, raw)

SpecOrganizers == InitOrganizers /\ [][NextOrganizers]_vars

----------------------------------------------------------------------------
(* C31 *)

\* The places in eff of the sends to operators, made or failed.
Attempts(eff) ==
    { i \in 1..Len(eff) : eff[i][1] \in {"notify", "notify_failed"} }

\* The places in eff of the receipt to the user.
Receipts(eff) == { i \in 1..Len(eff) : eff[i] = Reply("receipt") }

\* reg.save() returned before the receipt was sent.
PersistedFirst(eff) ==
    \A i \in Receipts(eff) : \E j \in 1..(i - 1) : eff[j] = <<"save", "ok">>

\* The receipt was sent before the first send to an operator.
ReceiptBeforeOperators(eff) ==
    \A n \in Attempts(eff) : \E i \in Receipts(eff) : i < n

\* The k-th send to an operator is to the k-th id of ORGANIZER_IDS.
InListOrder(eff) ==
    LET first == IF Attempts(eff) = {} THEN Len(eff) + 1
                 ELSE CHOOSE n \in Attempts(eff) :
                          \A m \in Attempts(eff) : n <= m
    IN  \A n \in Attempts(eff) :
            /\ n - first + 1 <= Len(ORGANIZER_IDS)
            /\ eff[n][2] = ORGANIZER_IDS[n - first + 1]
            /\ \A m \in first..n : m \in Attempts(eff)

\* No operator got the record twice.
OncePerOperator(eff) ==
    \A n, m \in Attempts(eff) :
        (eff[n] = eff[m] /\ eff[n][1] = "notify") => n = m

\* A save that raised is followed by no send at all.
NoneWithoutSave(eff) ==
    <<"save", "ok">> \notin Range(eff) =>
        Attempts(eff) = {} /\ Receipts(eff) = {}

\* C31: of what one update did, the record is persisted before the receipt
\* is sent to the user and the receipt before any send to an operator; the
\* operators are sent to in the order of ORGANIZER_IDS, none is notified
\* twice, and nothing is sent to anyone when the save did not succeed.
C31_CompletionOrder ==
    /\ PersistedFirst(effects)
    /\ ReceiptBeforeOperators(effects)
    /\ InListOrder(effects)
    /\ OncePerOperator(effects)
    /\ NoneWithoutSave(effects)

====
